---------------------------- MODULE Spec2Model ----------------------------
(***************************************************************************)
(* CSSRewriteFilter (webassets/filter/cssrewrite/__init__.py): the filter  *)
(* that rewrites url() references of a CSS source file so that they stay   *)
(* valid from the location of the output file.                             *)
(*                                                                         *)
(* Python strings are TLA+ strings; Len, \o and SubSeq act on them         *)
(* character by character, so startswith and slicing are the character     *)
(* level operations of the code.                                           *)
(***************************************************************************)
EXTENDS Integers, Sequences, FiniteSets, TLC

(***************************************************************************)
(* Python str primitives.                                                  *)
(***************************************************************************)
\* s[i:] with a 0-based index i
StrFrom(s, i) == IF i >= Len(s) THEN "" ELSE SubSeq(s, i + 1, Len(s))

\* s[:i]
StrTo(s, i) == IF i <= 0 THEN "" ELSE IF i >= Len(s) THEN s ELSE SubSeq(s, 1, i)

\* s[i] as a one character string, 1-based
CharAt(s, i) == SubSeq(s, i, i)

startswith(s, p) == Len(p) <= Len(s) /\ StrTo(s, Len(p)) = p

endswith(s, p) == Len(p) <= Len(s) /\ StrFrom(s, Len(s) - Len(p)) = p

\* s.find(c) for a one character c: the 0-based index of its first
\* occurrence, -1 when there is none
RECURSIVE FindFrom(_, _, _)
FindFrom(s, c, i) ==
    IF i > Len(s) THEN -1
    ELSE IF CharAt(s, i) = c THEN i - 1
    ELSE FindFrom(s, c, i + 1)

find(s, c) == FindFrom(s, c, 1)

\* s.split('/')
RECURSIVE split(_)
split(s) ==
    IF find(s, "/") = -1 THEN <<s>>
    ELSE <<StrTo(s, find(s, "/"))>> \o split(StrFrom(s, find(s, "/") + 1))

\* '/'.join(segs)
RECURSIVE joinsegs(_)
joinsegs(segs) ==
    IF Len(segs) = 0 THEN ""
    ELSE IF Len(segs) = 1 THEN segs[1]
    ELSE segs[1] \o "/" \o joinsegs(Tail(segs))

\* segs[:-1]
ButLast(segs) == IF Len(segs) = 0 THEN <<>> ELSE SubSeq(segs, 1, Len(segs) - 1)

Digits == {"0", "1", "2", "3", "4", "5", "6", "7", "8", "9"}

SchemeChars ==
    {"a", "b", "c", "d", "e", "f", "g", "h", "i", "j", "k", "l", "m", "n",
     "o", "p", "q", "r", "s", "t", "u", "v", "w", "x", "y", "z",
     "+", "-", "."} \cup Digits

AllIn(s, S) == \A i \in 1..Len(s) : CharAt(s, i) \in S


(***************************************************************************)
(* Python 2 standard library: posixpath and urlparse, as the filter calls  *)
(* them.  URLs and paths of the model carry no query, fragment or params   *)
(* part (no '?', '#' or ';'), so urlparse splits only scheme, netloc and   *)
(* path.                                                                   *)
(***************************************************************************)
\* posixpath.join(a, b)
pjoin(a, b) ==
    IF startswith(b, "/") THEN b
    ELSE IF a = "" \/ endswith(a, "/") THEN a \o b
    ELSE a \o "/" \o b

\* the loop of posixpath.normpath over the components
RECURSIVE NormComps(_, _, _)
NormComps(comps, acc, slashes) ==
    IF Len(comps) = 0 THEN acc
    ELSE LET comp == Head(comps)
             rest == Tail(comps)
         IN  IF comp \in {"", "."} THEN NormComps(rest, acc, slashes)
             ELSE IF comp # ".."
                     \/ (slashes = 0 /\ Len(acc) = 0)
                     \/ (Len(acc) > 0 /\ acc[Len(acc)] = "..")
                  THEN NormComps(rest, Append(acc, comp), slashes)
             ELSE IF Len(acc) > 0 THEN NormComps(rest, ButLast(acc), slashes)
             ELSE NormComps(rest, acc, slashes)

\* posixpath.normpath: the result put together from its leading slashes
\* and its components
NormResult(lead, body) == IF lead \o body = "" THEN "." ELSE lead \o body

\* posixpath.normpath: initial_slashes
InitialSlashes(path) ==
    IF ~startswith(path, "/") THEN 0
    ELSE IF startswith(path, "//") /\ ~startswith(path, "///") THEN 2
    ELSE 1

NormWith(path, slashes) ==
    NormResult(IF slashes = 2 THEN "//" ELSE IF slashes = 1 THEN "/" ELSE "",
               joinsegs(NormComps(split(path), <<>>, slashes)))

\* posixpath.normpath(path)
normpath(path) == IF path = "" THEN "." ELSE NormWith(path, InitialSlashes(path))

\* urlparse.uses_relative and urlparse.uses_netloc, cut down to the schemes
\* the URLs of the model carry
uses_relative == {"", "http", "https"}

uses_netloc == {"", "http", "https"}

\* urlsplit: whether url[:i] is a scheme, i = url.find(':')
SchemeAt(head, rest, i) ==
    /\ i > 0
    /\ \/ head = "http"
       \/ /\ AllIn(head, SchemeChars)
          /\ ~(rest # "" /\ AllIn(rest, Digits))

\* urlsplit: netloc and path of what follows '//', j = its first '/'
NetlocAt(scheme, after, j) ==
    [scheme |-> scheme,
     netloc |-> IF j = -1 THEN after ELSE StrTo(after, j),
     path |-> IF j = -1 THEN "" ELSE StrFrom(after, j)]

NetlocOf(scheme, after) == NetlocAt(scheme, after, find(after, "/"))

SplitNetloc(scheme, rest) ==
    IF startswith(rest, "//") THEN NetlocOf(scheme, StrFrom(rest, 2))
    ELSE [scheme |-> scheme, netloc |-> "", path |-> rest]

SplitAt(u, default, head, rest, i) ==
    IF SchemeAt(head, rest, i) THEN SplitNetloc(head, rest)
    ELSE SplitNetloc(default, u)

SplitScheme(u, default, i) == SplitAt(u, default, StrTo(u, i), StrFrom(u, i + 1), i)

\* urlparse.urlsplit(url, scheme): [scheme, netloc, path]
urlsplit(u, default) == SplitScheme(u, default, find(u, ":"))

\* urlparse.urlunsplit
urlunsplit(scheme, netloc, path) ==
    (IF scheme # "" THEN scheme \o ":" ELSE "")
    \o (IF netloc # "" \/ (scheme # "" /\ scheme \in uses_netloc
                           /\ ~startswith(path, "//"))
        THEN "//" \o netloc
             \o (IF path # "" /\ ~startswith(path, "/") THEN "/" ELSE "")
        ELSE "")
    \o path

\* urljoin: a last segment '.' becomes ''
FixLastDot(segs) ==
    IF segs[Len(segs)] = "." THEN ButLast(segs) \o <<"">> ELSE segs

\* urljoin's removal of every '.' segment
RECURSIVE RemoveDots(_)
RemoveDots(segs) ==
    IF Len(segs) = 0 THEN <<>>
    ELSE IF Head(segs) = "." THEN RemoveDots(Tail(segs))
    ELSE <<Head(segs)>> \o RemoveDots(Tail(segs))

\* urljoin's loop deleting 'seg/..' pairs: the indexes i (0-based) in
\* 1..n-1, n = len(segments) - 1, with segments[i] = '..' and segments[i-1]
\* not in ('', '..')
DotDotHits(segs) ==
    {i \in 1..(Len(segs) - 2) : segs[i + 1] = ".." /\ segs[i] \notin {"", ".."}}

Least(S) == CHOOSE k \in S : \A m \in S : k <= m

\* del segments[i-1:i+1]
DelPair(segs, i) == SubSeq(segs, 1, i - 1) \o SubSeq(segs, i + 2, Len(segs))

\* the first such pair is deleted, until none is left
RECURSIVE CollapseDotDot(_)
CollapseDotDot(segs) ==
    IF DotDotHits(segs) = {} THEN segs
    ELSE CollapseDotDot(DelPair(segs, Least(DotDotHits(segs))))

\* urljoin: a trailing '..' takes its parent with it
FixLastDotDot(segs) ==
    IF segs = <<"", "..">> THEN <<"", "">>
    ELSE IF Len(segs) >= 2 /\ segs[Len(segs)] = ".."
         THEN SubSeq(segs, 1, Len(segs) - 2) \o <<"">>
    ELSE segs

\* urljoin: the path of url resolved against the directory of bpath
JoinPath(bpath, upath) ==
    joinsegs(FixLastDotDot(CollapseDotDot(RemoveDots(FixLastDot(
        ButLast(split(bpath)) \o split(upath))))))

JoinParts(u, b, p) ==
    IF p.scheme # b.scheme \/ p.scheme \notin uses_relative THEN u
    ELSE IF p.scheme \in uses_netloc /\ p.netloc # ""
         THEN urlunsplit(p.scheme, p.netloc, p.path)
    ELSE IF startswith(p.path, "/") THEN urlunsplit(p.scheme, b.netloc, p.path)
    ELSE IF p.path = "" THEN urlunsplit(p.scheme, b.netloc, b.path)
    ELSE urlunsplit(p.scheme, b.netloc, JoinPath(b.path, p.path))

JoinBase(u, b) == JoinParts(u, b, urlsplit(u, b.scheme))

\* urlparse.urljoin(base, url)
urljoin(base, u) ==
    IF base = "" THEN u
    ELSE IF u = "" THEN base
    ELSE JoinBase(u, urlsplit(base, ""))

(***************************************************************************)
(* Helpers of this repository that the filter imports: base.addsep,        *)
(* base.path2url, webassets.utils.common_path_prefix, the urlpath module   *)
(* and Environment.absurl.  os.sep is '/'.                                 *)
(***************************************************************************)
\* addsep(path): the path with a trailing separator
addsep(path) == IF path # "" /\ ~endswith(path, "/") THEN path \o "/" ELSE path

\* path2url(path): separators become forward slashes; with os.sep = '/'
\* nothing is left to convert
path2url(path) == path

\* the number of leading segments two segment lists share
RECURSIVE CommonLen(_, _)
CommonLen(a, b) ==
    IF Len(a) = 0 \/ Len(b) = 0 \/ Head(a) # Head(b) THEN 0
    ELSE 1 + CommonLen(Tail(a), Tail(b))

\* common_path_prefix([p, q]): the longest prefix of whole path segments
common_path_prefix(p, q) ==
    joinsegs(SubSeq(split(p), 1, CommonLen(split(p), split(q))))

RECURSIVE Ascents(_)
Ascents(n) == IF n <= 0 THEN <<>> ELSE <<"..">> \o Ascents(n - 1)

\* the relative path made of the ascents from the origin directory and of
\* what dest has below the common part; for identical locations '' (a
\* directory) or the file name
RelJoin(segments, dest_list, dest) ==
    IF Len(segments) = 0
    THEN IF endswith(dest, "/") THEN "" ELSE dest_list[Len(dest_list)]
    ELSE joinsegs(segments)

RelFrom(orig_list, dest_list, dest, i) ==
    RelJoin(Ascents(Len(orig_list) - i) \o SubSeq(dest_list, i + 1, Len(dest_list)),
            dest_list, dest)

\* the relative path from the directory orig_list to dest_list, both lists
\* of segments below a common root
RelSegments(orig_list, dest_list, dest) ==
    RelFrom(orig_list, dest_list, dest, CommonLen(orig_list, dest_list))

\* a path made to start at the root
Rooted(path) == IF startswith(path, "/") THEN path ELSE "/" \o path

RelParts(o, d, dest) ==
    IF o.scheme # d.scheme \/ o.netloc # d.netloc THEN dest
    ELSE RelSegments(ButLast(split(Rooted(o.path))), split(Rooted(d.path)), dest)

\* urlpath.relpath(origin, dest): the relative URL that reaches dest from
\* the location of origin (a file unless it ends with '/'); dest itself
\* when the two share no ancestor (another scheme or host)
relpath(origin, dest) == RelParts(urlsplit(origin, ""), urlsplit(dest, ""), dest)

\* a normalized path that keeps the trailing slash of what it was made from
KeepSlash(given, norm) ==
    IF endswith(given, "/") /\ ~endswith(norm, "/") THEN norm \o "/" ELSE norm

AbsUnder(base, path) == KeepSlash(path, normpath(pjoin(base, path)))

\* urlpath.relpathto(thisdir, origin, dest): the relative path from origin
\* to dest, both taken relative to thisdir
relpathto(thisdir, origin, dest) ==
    RelSegments(ButLast(split(AbsUnder(Rooted(thisdir), origin))),
                split(AbsUnder(Rooted(thisdir), dest)), dest)

\* the directory of base, a file unless it ends with '/'
DirOf(base) ==
    IF base # "" /\ ~endswith(base, "/") THEN joinsegs(ButLast(split(base)))
    ELSE base

\* urlpath.pathjoin(base, path): path joined against the directory of base
pathjoin(base, path) == normpath(pjoin(addsep(DirOf(base)), path))

\* Environment.absurl(fragment): the fragment anchored under the base URL
absurl(envurl, fragment) == urljoin(addsep(envurl), fragment)

(***************************************************************************)
(* The filter object and the values it is driven with.                     *)
(***************************************************************************)
VARIABLES
    pc,               \* "new", "constructed" (after __init__), "bound" (after input)
    replace,          \* self.replace
    external,         \* self.external
    replace_dict,     \* self.replace_dict
    external_assets,  \* self.external_assets
    env_directory,    \* self.env.directory
    env_url,          \* self.env.url
    source_path,      \* self.source_path
    source_url,       \* self.source_url
    output_path,      \* self.output_path
    output_url,       \* self.output_url
    url,              \* the argument of the last replace_url call
    file_path,        \* what that call asked versioned_folder for
    asset_path,       \* what versioned_folder answered
    branch,           \* the branch that call took
    ret,              \* what that call returned
    raised,           \* the exception that call raised, "" for none
    calls,            \* replace_url calls since the last input()
    repeated          \* history: that call repeated the URL of the one before

vars == <<pc, replace, external, replace_dict, external_assets, env_directory,
          env_url, source_path, source_url, output_path, output_url, url,
          file_path, asset_path, branch, ret, raised, calls, repeated>>

\* the fields of the filter object and of its environment
filter_state == <<replace, external, replace_dict, external_assets,
                  env_directory, env_url, source_path, source_url,
                  output_path, output_url>>

\* Python values of the two keyword arguments
PyFalse == [kind |-> "False", items |-> <<>>]

PyNone == [kind |-> "None", items |-> <<>>]

\* a mapping with its items in registration order
PyDict(items) == [kind |-> "dict", items |-> items]

\* the name an ExternalAssets object is registered under
PyName == [kind |-> "name", items |-> <<>>]

\* an attribute that was never assigned
Unset == [kind |-> "unset", items |-> <<>>]

\* replace_url calls modelled per source file
MaxCalls == 2

\* the replace mappings the filter is constructed with: directory -> prefix
ReplaceArgs ==
    { PyFalse, PyNone,
      PyDict(<<>>),
      PyDict(<< <<"a/b/", "/x">>, <<"a/", "/y">> >>),
      PyDict(<< <<"a/", "/y">>, <<"a/b/", "/x">> >>),
      PyDict(<< <<"old", "/new/">> >>),
      PyDict(<< <<"a", "/x">>, <<"a/", "/y">> >>) }

ExternalArgs == { PyFalse, PyNone, PyName }

\* env.url: none, a bare path, a complete URL
EnvUrls == { "", "/static", "http://cdn/" }

\* (source_path, source_url) of the source files
Sources ==
    { <<"/proj/a.css", "/a.css">>,
      <<"/proj/css/a.css", "css/a.css">>,
      <<"/proj/css/sub/a.css", "/css/sub/a.css">>,
      <<"/proj/a/b/a.css", "/a/b/a.css">> }

\* (output_path, output_url) of the output files
Outputs ==
    { <<"/proj/build/out.css", "/build/out.css">>,
      <<"/proj/css/out.css", "css/out.css">>,
      <<"/proj/out.css", "/out.css">> }

\* the URLs found in the CSS
Urls ==
    { "x.png", "../img/x.png", "./x.png", "i/../x.png", "/a/b/x.png",
      "old/x.png", "a/c.png", "b/x.png", "http://h/x.png", "https://h/a/x.png",
      "data:x" }

\* what the ExternalAssets object may answer
VersionedPaths == { "ext/x.v1.png", "/proj/css/x.v2.png", "build/v3/x.png" }

(***************************************************************************)
(* CSSRewriteFilter                                                        *)
(***************************************************************************)
Init ==
    /\ pc = "new"
    /\ replace = Unset
    /\ external = Unset
    /\ replace_dict = Unset
    /\ external_assets = Unset
    /\ env_directory = "/proj"
    /\ env_url \in EnvUrls
    /\ source_path = ""
    /\ source_url = ""
    /\ output_path = ""
    /\ output_url = ""
    /\ url = ""
    /\ file_path = ""
    /\ asset_path = ""
    /\ branch = ""
    /\ ret = ""
    /\ raised = ""
    /\ calls = 0
    /\ repeated = FALSE

\* __init__(self, replace=False, external=False)
Construct(r, e) ==
    /\ pc = "new"
    /\ replace' = r
    /\ external' = e
    /\ pc' = "constructed"
    /\ UNCHANGED <<replace_dict, external_assets, env_directory, env_url,
                   source_path, source_url, output_path, output_url, url,
                   file_path, asset_path, branch, ret, raised, calls,
                   repeated>>

\* replace_dict[replurl] = sub on an OrderedDict: a new key goes last, a
\* known key keeps its place and takes the new value
DictSet(d, key, sub) ==
    IF \E i \in 1..Len(d) : d[i][1] = key
    THEN [i \in 1..Len(d) |-> IF d[i][1] = key THEN <<key, sub>> ELSE d[i]]
    ELSE Append(d, <<key, sub>>)

\* replurl of input(): repldir relative to root, as a URL
ReplUrl(root, repldir) ==
    path2url(StrFrom(repldir, Len(common_path_prefix(root, repldir))))

\* the loop of input() over self.replace.items()
RECURSIVE BuildReplaceDict(_, _, _)
BuildReplaceDict(items, root, d) ==
    IF Len(items) = 0 THEN d
    ELSE BuildReplaceDict(
             Tail(items), root,
             DictSet(d, ReplUrl(root, addsep(normpath(pjoin(root, items[1][1])))),
                     items[1][2]))

\* input(self, _in, out, **kw): the rule set and the resolver are set up,
\* then the base class binds the source and output locations
Input(src, out) ==
    /\ pc \in {"constructed", "bound"}
    /\ replace_dict' =
          IF replace \notin {PyFalse, PyNone}
          THEN PyDict(BuildReplaceDict(replace.items, addsep(env_directory), <<>>))
          ELSE replace_dict
    /\ external_assets' =
          IF external \notin {PyFalse, PyNone} THEN external ELSE external_assets
    /\ source_path' = src[1]
    /\ source_url' = src[2]
    /\ output_path' = out[1]
    /\ output_url' = out[2]
    /\ pc' = "bound"
    /\ calls' = 0
    /\ repeated' = FALSE
    /\ url' = ""
    /\ file_path' = ""
    /\ asset_path' = ""
    /\ branch' = ""
    /\ ret' = ""
    /\ raised' = ""
    /\ UNCHANGED <<replace, external, env_directory, env_url>>

_is_abs_url(u) ==
    startswith(u, "/") /\ (startswith(u, "http://") \/ startswith(u, "https://"))

\* ReplaceLoop letting the last matching rule win
RECURSIVE ReplaceLoopLast(_, _, _)
ReplaceLoopLast(items, targeturl, u) ==
    IF Len(items) = 0 THEN u
    ELSE IF startswith(targeturl, items[Len(items)][1])
         THEN items[Len(items)][2] \o StrFrom(targeturl, Len(items[Len(items)][1]))
    ELSE ReplaceLoopLast(ButLast(items), targeturl, u)

\* ReplaceLoop returning the resolved URL when no rule matches
RECURSIVE ReplaceLoopResolved(_, _, _)
ReplaceLoopResolved(items, targeturl, u) ==
    IF Len(items) = 0 THEN targeturl
    ELSE IF startswith(targeturl, items[1][1])
         THEN items[1][2] \o StrFrom(targeturl, Len(items[1][1]))
    ELSE ReplaceLoopResolved(Tail(items), targeturl, u)

\* the for loop of replace mode: the first rule whose prefix starts
\* targeturl rewrites the URL, and the loop ends
RECURSIVE ReplaceLoop(_, _, _)
ReplaceLoop(items, targeturl, u) ==
    IF Len(items) = 0 THEN u
    ELSE IF startswith(targeturl, items[1][1])
         THEN items[1][2] \o StrFrom(targeturl, Len(items[1][1]))
    ELSE ReplaceLoop(Tail(items), targeturl, u)

\* ExternalReplacement measuring from the source file, not the output file
ExternalReplacementFromSource(asset) ==
    IF env_url # ""
    THEN IF startswith(env_url, "http://") \/ startswith(env_url, "https://")
            \/ startswith(env_url, "//")
         THEN urljoin(env_url, asset)
         ELSE relpathto(env_directory, source_path, absurl(env_url, asset))
    ELSE relpathto(env_directory, source_path, asset)

\* the replacement of external mode for a resolver answer
ExternalReplacement(asset) ==
    IF env_url # ""
    THEN IF startswith(env_url, "http://") \/ startswith(env_url, "https://")
            \/ startswith(env_url, "//")
         THEN urljoin(env_url, asset)
         ELSE relpathto(env_directory, output_path, absurl(env_url, asset))
    ELSE relpathto(env_directory, output_path, asset)

\* DefaultRewrite without the resolution against the source location
DefaultRewriteUnresolved(u) ==
    IF ~_is_abs_url(u) THEN relpath(output_url, u) ELSE u

\* DefaultRewrite measuring from the source location, not the output location
DefaultRewriteFromSource(u) ==
    IF ~_is_abs_url(u) THEN relpath(source_url, urljoin(source_url, u)) ELSE u

\* default mode
DefaultRewrite(u) ==
    IF ~_is_abs_url(u) THEN relpath(output_url, urljoin(source_url, u)) ELSE u

\* the branch replace_url takes
ModeOf(r, e) ==
    IF r # PyFalse THEN "replace"
    ELSE IF e # PyFalse THEN "external"
    ELSE "default"

\* what a replace_url call came to: its return value, or the exception it
\* raised; and what the resolver was asked and answered, when it was
Returned(value) == [ret |-> value, raised |-> "", file |-> "", asset |-> ""]

Resolved(value, file, asset) ==
    [ret |-> value, raised |-> "", file |-> file, asset |-> asset]

Raised(exc) == [ret |-> "", raised |-> exc, file |-> "", asset |-> ""]

\* replace_url(self, url), v being the answer of versioned_folder
replace_url(u, v) ==
    IF replace # PyFalse
    THEN IF replace_dict = Unset THEN Raised("AttributeError")
         ELSE Returned(ReplaceLoop(replace_dict.items, urljoin(source_url, u), u))
    ELSE IF external # PyFalse
    THEN IF _is_abs_url(u) THEN Returned(u)
         ELSE IF external_assets = Unset THEN Raised("AttributeError")
         ELSE Resolved(ExternalReplacement(v), pathjoin(source_path, u), v)
    ELSE Returned(DefaultRewrite(u))

\* replace_url consults the resolver only on line 105
AsksResolver(u) ==
    /\ ModeOf(replace, external) = "external"
    /\ ~_is_abs_url(u)
    /\ external_assets # Unset

\* SelfAfterCall of a replace_url that rebases the source location on the
\* URL it has just resolved
SelfAfterCallRebased(u) ==
    [source_path |-> source_path, source_url |-> urljoin(source_url, u),
     output_path |-> output_path, output_url |-> output_url,
     replace |-> replace, external |-> external,
     replace_dict |-> replace_dict, external_assets |-> external_assets]

\* the fields of self after replace_url(u): the method assigns none of them
SelfAfterCall(u) ==
    [source_path |-> source_path, source_url |-> source_url,
     output_path |-> output_path, output_url |-> output_url,
     replace |-> replace, external |-> external,
     replace_dict |-> replace_dict, external_assets |-> external_assets]

Outcome(r) ==
    /\ ret' = r.ret
    /\ raised' = r.raised
    /\ file_path' = r.file
    /\ asset_path' = r.asset

Fields(self) ==
    /\ source_path' = self.source_path
    /\ source_url' = self.source_url
    /\ output_path' = self.output_path
    /\ output_url' = self.output_url
    /\ replace' = self.replace
    /\ external' = self.external
    /\ replace_dict' = self.replace_dict
    /\ external_assets' = self.external_assets

\* one replace_url call made by the base class for a URL of the source file
ReplaceUrl(u, v) ==
    /\ pc = "bound"
    /\ calls < MaxCalls
    /\ Outcome(replace_url(u, v))
    /\ url' = u
    /\ branch' = ModeOf(replace, external)
    /\ calls' = calls + 1
    /\ repeated' = (calls > 0 /\ u = url)
    /\ Fields(SelfAfterCall(u))
    /\ UNCHANGED <<pc, env_directory, env_url>>

Next ==
    \/ \E r \in ReplaceArgs, e \in ExternalArgs : Construct(r, e)
    \/ \E src \in Sources, out \in Outputs : Input(src, out)
    \/ \E u \in Urls :
          \E v \in (IF AsksResolver(u) THEN VersionedPaths ELSE {""}) :
             ReplaceUrl(u, v)

Spec == Init /\ [][Next]_vars

(***************************************************************************)
(* Properties                                                              *)
(***************************************************************************)
\* a replace_url call was made under the current bindings: url, branch, ret
\* and raised describe it
Called == pc = "bound" /\ calls > 0

\* http:// and https:// URLs
IsSchemeUrl(u) == startswith(u, "http://") \/ startswith(u, "https://")

\* a URL with no scheme, no host and no leading '/'
IsRelativeUrl(u) ==
    /\ u # ""
    /\ ~startswith(u, "/")
    /\ urlsplit(u, "").scheme = ""
    /\ urlsplit(u, "").netloc = ""

\* a result that is an absolute URL or path
IsAbsoluteResult(u) ==
    \/ startswith(u, "/")
    \/ urlsplit(u, "").scheme # ""
    \/ urlsplit(u, "").netloc # ""

\* every segment of u is a name
PlainSegments(u) == \A i \in 1..Len(split(u)) : split(u)[i] \notin {"", ".", ".."}

\* source_url and output_url lie in the same directory
SameDir ==
    ButLast(split(Rooted(source_url))) = ButLast(split(Rooted(output_url)))

\* the URL of the last call resolved against the source location
Target == urljoin(source_url, url)

\* the rules of replace_dict whose prefix starts Target
Hits ==
    {i \in 1..Len(replace_dict.items) : startswith(Target, replace_dict.items[i][1])}

\* the prefix input() derives from a configured directory
Prefix(dir) ==
    ReplUrl(addsep(env_directory), addsep(normpath(pjoin(addsep(env_directory), dir))))

\* the prefixes of the configured rules, each at its first registration
RECURSIVE FirstPrefixes(_, _)
FirstPrefixes(items, seen) ==
    IF Len(items) = 0 THEN seen
    ELSE IF \E i \in 1..Len(seen) : seen[i] = Prefix(items[1][1])
         THEN FirstPrefixes(Tail(items), seen)
    ELSE FirstPrefixes(Tail(items), Append(seen, Prefix(items[1][1])))

ReplaceCalled == Called /\ branch = "replace" /\ raised = ""

\* C1: a URL that begins with http:// or https:// is returned unchanged in
\* every mode, whatever the source and output contexts are.
C1_AbsoluteUrlUnchanged ==
    (Called /\ raised = "" /\ IsSchemeUrl(url)) => ret = url

C4_BothRejected ==
    pc \in {"constructed", "bound"} =>
        ~(replace.kind = "dict" /\ external.kind = "name")

DefaultCalled == Called /\ branch = "default" /\ raised = ""

\* C5 as claimed: in default mode, with source and output in the same
\* directory, every relative URL is returned unchanged.
C5_SameDirIdentity ==
    (DefaultCalled /\ IsRelativeUrl(url) /\ SameDir) => ret = url

\* C5 as the code has it: in default mode, with source and output in the
\* same directory, a relative URL made of name segments only is returned
\* unchanged; any other relative URL is returned in a form that resolves
\* against the output location to what the URL resolves to against the
\* source location.
C5_SameDirIdentityOfPlainUrls ==
    (DefaultCalled /\ IsRelativeUrl(url) /\ SameDir) =>
        /\ PlainSegments(url) => ret = url
        /\ Rooted(urljoin(output_url, ret)) = Rooted(Target)

\* a plain relative URL rewritten between two files of one directory
C5_Witness ==
    /\ DefaultCalled
    /\ IsRelativeUrl(url)
    /\ PlainSegments(url)
    /\ SameDir
    /\ source_url # output_url
    /\ ret = url

\* the case of C6: /proj/css/sub/a.css rewritten into /proj/build/out.css
C6_Case ==
    /\ DefaultCalled
    /\ source_path = "/proj/css/sub/a.css"
    /\ output_path = "/proj/build/out.css"
    /\ url = "../img/x.png"

\* C6 as claimed: there "../img/x.png" is rewritten to "css/img/x.png".
C6_ExampleAsClaimed == C6_Case => ret = "css/img/x.png"

\* C6 as the code has it: there "../img/x.png" is rewritten to
\* "../css/img/x.png"; in default mode the result is the relative URL from
\* the output location to the URL resolved against the source location.
C6_RelativeFromOutput ==
    /\ C6_Case => ret = "../css/img/x.png"
    /\ DefaultCalled => Rooted(urljoin(output_url, ret)) = Rooted(Target)

C6_Witness == C6_Case /\ ret = "../css/img/x.png"

ExternalCalled ==
    Called /\ branch = "external" /\ raised = "" /\ asset_path # ""

\* C7: in external mode with no env.url, a relative URL is joined against
\* source_path, the resolver is asked for that path, and the result is the
\* path relative to the directory of the output file that reaches the
\* resolver's answer; it is never absolute.
C7_ExternalRelativeToOutput ==
    (ExternalCalled /\ env_url = "" /\ IsRelativeUrl(url)) =>
        /\ file_path = normpath(pjoin(addsep(DirOf(source_path)), url))
        /\ ~IsAbsoluteResult(ret)
        /\ normpath(pjoin(addsep(DirOf(output_path)), ret))
              = normpath(pjoin(Rooted(env_directory), asset_path))

\* a relative URL versioned from an output file in another directory
C7_Witness ==
    /\ ExternalCalled
    /\ env_url = ""
    /\ IsRelativeUrl(url)
    /\ DirOf(source_path) # DirOf(output_path)
    /\ startswith(ret, "../")

\* C8: a url() token that is no path, such as a data: URI, is returned
\* unchanged in every mode.
C8_NonPathPassThrough ==
    (Called /\ raised = "" /\ startswith(url, "data:")) => ret = url

\* C9: replace_url assigns no field of the filter, so a second call with
\* the same URL under the same bindings (and the same resolver answer)
\* returns what the first returned.
C9_NoStateDrift ==
    [][calls' = calls + 1 =>
          /\ filter_state' = filter_state
          /\ (calls > 0 /\ url' = url /\ asset_path' = asset_path)
                => (ret' = ret /\ raised' = raised)]_vars

\* a call that repeated the URL of the call before it, under the same
\* bindings, and rewrote it
C9_Witness == Called /\ repeated /\ raised = "" /\ ret # url

\* C10: the branch replace_url takes was set up by input(): the relocation
\* branch finds replace_dict, the external branch finds external_assets,
\* and None for replace and external means default mode, as False does.
C10_ModeConsistent ==
    Called =>
        /\ branch = "replace" => replace_dict # Unset
        /\ branch = "external" => external_assets # Unset
        /\ (replace \in {PyFalse, PyNone} /\ external \in {PyFalse, PyNone})
              => branch = "default"

=============================================================================
